---- MODULE Spec2Model ----
(***************************************************************************)
(* A model of render_gantt.py: the loader/normaliser (load_tasks,          *)
(* _derive_schedule, exclude_buckets), the annotator (_get_initials,       *)
(* _parse_assignees, _get_assignee_color, _style_completed_bars) and the   *)
(* control flow of main.                                                   *)
(*                                                                         *)
(* Encoding.  A Python str is a sequence of one-character strings.  A      *)
(* table cell is a sequence of length 0 or 1: Na (<<>>) is a missing value *)
(* (None / NaN / NaT), <<v>> holds the value v.  A Timestamp is the        *)
(* proleptic Gregorian ordinal of its day, a Timedelta a number of days.   *)
(***************************************************************************)
EXTENDS Integers, Sequences, FiniteSets, TLC

(***************************************************************************)
(* Characters and strings                                                  *)
(***************************************************************************)

\* The characters used by the model, in increasing code point order.
Ascii ==
    << " ", "!", "*", "-", ".", "/",
       "0", "1", "2", "3", "4", "5", "6", "7", "8", "9",
       ";", "?",
       "A", "B", "C", "D", "E", "F", "G", "H", "I", "J", "K", "L", "M",
       "N", "O", "P", "Q", "R", "S", "T", "U", "V", "W", "X", "Y", "Z",
       "[", "]",
       "a", "b", "c", "d", "e", "f", "g", "h", "i", "j", "k", "l", "m",
       "n", "o", "p", "q", "r", "s", "t", "u", "v", "w", "x", "y", "z" >>

\* The position of each character in Ascii, standing for its code point
OrdTable ==
    [c \in {Ascii[i] : i \in 1..Len(Ascii)} |-> CHOOSE i \in 1..Len(Ascii) : Ascii[i] = c]

Ord(c) == OrdTable[c]

IsDigit(c) == Ord(c) >= Ord("0") /\ Ord(c) <= Ord("9")
IsUpperCh(c) == Ord(c) >= Ord("A") /\ Ord(c) <= Ord("Z")
IsLowerCh(c) == Ord(c) >= Ord("a") /\ Ord(c) <= Ord("z")
IsSpace(c) == c = " "

\* str.lower / str.upper on one character
LowerCh(c) == IF IsUpperCh(c) THEN Ascii[Ord(c) + (Ord("a") - Ord("A"))] ELSE c
UpperCh(c) == IF IsLowerCh(c) THEN Ascii[Ord(c) - (Ord("a") - Ord("A"))] ELSE c

Lower(s) == [i \in 1..Len(s) |-> LowerCh(s[i])]
Upper(s) == [i \in 1..Len(s) |-> UpperCh(s[i])]

\* s[:n]
Prefix(s, n) == SubSeq(s, 1, IF n < Len(s) THEN n ELSE Len(s))

\* str.strip(): drop leading and trailing whitespace
RECURSIVE LStrip(_)
LStrip(s) ==
    IF s = <<>> THEN <<>>
    ELSE IF IsSpace(Head(s)) THEN LStrip(Tail(s)) ELSE s

RECURSIVE RStrip(_)
RStrip(s) ==
    IF s = <<>> THEN <<>>
    ELSE IF IsSpace(s[Len(s)]) THEN RStrip(SubSeq(s, 1, Len(s) - 1)) ELSE s

Strip(s) == RStrip(LStrip(s))

\* str.split(sep): the pieces between occurrences of the character sep
RECURSIVE SplitOn(_, _, _)
SplitOn(s, sep, cur) ==
    IF s = <<>> THEN <<cur>>
    ELSE IF Head(s) = sep THEN <<cur>> \o SplitOn(Tail(s), sep, <<>>)
    ELSE SplitOn(Tail(s), sep, Append(cur, Head(s)))

\* str.split(): the maximal runs of non-whitespace characters
RECURSIVE SplitWs(_, _)
SplitWs(s, cur) ==
    IF s = <<>> THEN (IF cur = <<>> THEN <<>> ELSE <<cur>>)
    ELSE IF IsSpace(Head(s))
         THEN (IF cur = <<>> THEN <<>> ELSE <<cur>>) \o SplitWs(Tail(s), <<>>)
         ELSE SplitWs(Tail(s), Append(cur, Head(s)))

\* str.title(): a letter is upper-cased when it follows a non-letter (or
\* starts the string) and lower-cased when it follows a letter.
Title(s) ==
    [i \in 1..Len(s) |->
        IF i > 1 /\ (IsUpperCh(s[i - 1]) \/ IsLowerCh(s[i - 1]))
        THEN LowerCh(s[i])
        ELSE UpperCh(s[i])]

\* Python's < on str: lexicographic by code point
RECURSIVE StrLess(_, _)
StrLess(a, b) ==
    IF b = <<>> THEN FALSE
    ELSE IF a = <<>> THEN TRUE
    ELSE IF Head(a) = Head(b) THEN StrLess(Tail(a), Tail(b))
    ELSE Ord(Head(a)) < Ord(Head(b))

(***************************************************************************)
(* Cells                                                                   *)
(***************************************************************************)

Na == <<>>
Some(v) == <<v>>
isna(x) == x = Na
Val(x) == x[1]

(***************************************************************************)
(* Dates                                                                   *)
(***************************************************************************)

DEFAULT_DURATION_DAYS == 7

IsLeap(y) == (y % 4 = 0) /\ ((y % 100 # 0) \/ (y % 400 = 0))

DaysInMonth(y, m) ==
    IF m = 2 THEN (IF IsLeap(y) THEN 29 ELSE 28)
    ELSE IF m \in {4, 6, 9, 11} THEN 30 ELSE 31

RECURSIVE DaysBeforeMonth(_, _)
DaysBeforeMonth(y, m) ==
    IF m = 1 THEN 0 ELSE DaysBeforeMonth(y, m - 1) + DaysInMonth(y, m - 1)

DaysBeforeYear(y) ==
    (y - 1) * 365 + ((y - 1) \div 4) - ((y - 1) \div 100) + ((y - 1) \div 400)

\* The day number of year y, month m, day d
Ordinal(y, m, d) == DaysBeforeYear(y) + DaysBeforeMonth(y, m) + d

RECURSIVE ToNat(_, _)
ToNat(s, acc) ==
    IF s = <<>> THEN acc
    ELSE ToNat(Tail(s), acc * 10 + (Ord(Head(s)) - Ord("0")))

AllDigits(s) == s # <<>> /\ \A i \in 1..Len(s) : IsDigit(s[i])

\* pd.to_datetime(text, format="%m/%d/%Y", errors="coerce") on one cell:
\* one or two digits, "/", one or two digits, "/", four digits, naming a
\* day of the calendar; anything else is coerced to NaT.
to_datetime(cell) ==
    IF isna(cell) THEN Na
    ELSE LET parts == SplitOn(Val(cell), "/", <<>>) IN
         IF Len(parts) # 3 THEN Na
         ELSE IF ~(AllDigits(parts[1]) /\ AllDigits(parts[2]) /\ AllDigits(parts[3]))
              THEN Na
         ELSE IF ~(Len(parts[1]) <= 2 /\ Len(parts[2]) <= 2 /\ Len(parts[3]) = 4)
              THEN Na
         ELSE LET m == ToNat(parts[1], 0)
                  d == ToNat(parts[2], 0)
                  y == ToNat(parts[3], 0)
              IN IF m >= 1 /\ m <= 12 /\ d >= 1 /\ d <= DaysInMonth(y, m)
                 THEN Some(Ordinal(y, m, d))
                 ELSE Na

(***************************************************************************)
(* _derive_schedule                                                        *)
(***************************************************************************)

\* _derive_schedule without the final clamp of finish to start
_derive_schedule_noclamp(row) ==
    LET start1 == IF isna(row.start_date) /\ ~isna(row.created)
                  THEN row.created ELSE row.start_date
        finish1 == IF isna(row.due) /\ ~isna(row.completed)
                   THEN row.completed ELSE row.due
        start2 == IF isna(start1) /\ ~isna(finish1)
                  THEN Some(Val(finish1) - DEFAULT_DURATION_DAYS)
                  ELSE start1
        finish2 == IF isna(finish1) /\ ~isna(start2)
                   THEN Some(Val(start2) + DEFAULT_DURATION_DAYS)
                   ELSE finish1
    IN [Start |-> start2, Finish |-> finish2]

\* row has the (parsed) fields start_date, created, due, completed
_derive_schedule(row) ==
    LET start0 == row.start_date
        finish0 == row.due
        created == row.created
        completed == row.completed
        start1 == IF isna(start0) /\ ~isna(created) THEN created ELSE start0
        finish1 == IF isna(finish0) /\ ~isna(completed) THEN completed ELSE finish0
        start2 == IF isna(start1) /\ ~isna(finish1)
                  THEN Some(Val(finish1) - DEFAULT_DURATION_DAYS)
                  ELSE start1
        finish2 == IF isna(finish1) /\ ~isna(start2)
                   THEN Some(Val(start2) + DEFAULT_DURATION_DAYS)
                   ELSE finish1
        finish3 == IF ~isna(start2) /\ ~isna(finish2) /\ Val(finish2) < Val(start2)
                   THEN start2
                   ELSE finish2
    IN [Start |-> start2, Finish |-> finish3]

(***************************************************************************)
(* _get_initials                                                           *)
(***************************************************************************)

suffixes ==
    { <<"p", "h", "d">>, <<"m", "d">>, <<"j", "r">>, <<"s", "r">>,
      <<"i", "i">>, <<"i", "i", "i">>, <<"i", "v">>, <<"e", "s", "q">>,
      <<"d", "d", "s">>, <<"d", "v", "m">> }

\* re.sub(r"[^a-z]", "", part.lower())
Normalize(part) == SelectSeq(Lower(part), IsLowerCh)

\* PopSuffixes with "if" for "while": at most one suffix is removed
PopSuffixes_once(parts) ==
    IF parts # <<>> /\ Normalize(parts[Len(parts)]) \in suffixes
    THEN SubSeq(parts, 1, Len(parts) - 1)
    ELSE parts

\* while parts and <last part, normalised> in suffixes: parts.pop()
RECURSIVE PopSuffixes(_)
PopSuffixes(parts) ==
    IF parts # <<>> /\ Normalize(parts[Len(parts)]) \in suffixes
    THEN PopSuffixes(SubSeq(parts, 1, Len(parts) - 1))
    ELSE parts

_get_initials(name) ==
    LET parts == PopSuffixes(SplitWs(Strip(name), <<>>)) IN
    IF parts = <<>> THEN <<"?", "?">>
    ELSE IF Len(parts) = 1 THEN Upper(Prefix(parts[1], 2))
    ELSE Upper(<<parts[1][1], parts[Len(parts)][1]>>)

(***************************************************************************)
(* _parse_assignees                                                        *)
(***************************************************************************)

_parse_assignees(assignee_str) ==
    IF isna(assignee_str) \/ Strip(Val(assignee_str)) = <<>> THEN <<>>
    ELSE LET pieces == SplitOn(Val(assignee_str), ";", <<>>)
             stripped == [i \in 1..Len(pieces) |-> Strip(pieces[i])]
         IN SelectSeq(stripped, LAMBDA n : n # <<>>)

(***************************************************************************)
(* _get_assignee_color                                                     *)
(***************************************************************************)

AVATAR_COLORS ==
    << "#E57373", "#81C784", "#64B5F6", "#FFD54F", "#BA68C8",
       "#4DB6AC", "#FF8A65", "#A1887F", "#90A4AE", "#F06292",
       "#AED581", "#7986CB", "#FFB74D", "#4DD0E1", "#9575CD" >>

\* A dict is the sequence of its items in insertion order.
Keys(map) == {map[i].key : i \in 1..Len(map)}
Lookup(map, k) == map[CHOOSE i \in 1..Len(map) : map[i].key = k].value

\* NextColor counting the new entry before it is stored
NextColor_offbyone(map) == AVATAR_COLORS[((Len(map) + 1) % Len(AVATAR_COLORS)) + 1]

\* idx = len(color_map) % len(AVATAR_COLORS); Python indexes from 0
NextColor(map) == AVATAR_COLORS[(Len(map) % Len(AVATAR_COLORS)) + 1]

\* The map after the call and the color returned
_get_assignee_color(name, map) ==
    LET map2 == IF name \notin Keys(map)
                THEN Append(map, [key |-> name, value |-> NextColor(map)])
                ELSE map
    IN [color_map |-> map2, color |-> Lookup(map2, name)]

(***************************************************************************)
(* fnmatch.fnmatchcase                                                     *)
(***************************************************************************)

\* The index of the "]" closing the bracket expression that opens at
\* pat[1] = "[", or 0 when the bracket is not closed (then "[" is literal).
\* A "]" directly after "[" or "[!" is a member, not the closing bracket.
RECURSIVE FindClose(_, _)
FindClose(pat, j) ==
    IF j > Len(pat) THEN 0
    ELSE IF pat[j] = "]" THEN j
    ELSE FindClose(pat, j + 1)

ClassEnd(pat) ==
    LET j1 == IF Len(pat) >= 2 /\ pat[2] = "!" THEN 3 ELSE 2
        j2 == IF j1 <= Len(pat) /\ pat[j1] = "]" THEN j1 + 1 ELSE j1
    IN FindClose(pat, j2)

\* Does character c belong to the bracket expression with body stuff
\* (members, ranges x-y, a leading "!" negating the set)?
InClass(c, stuff) ==
    LET neg == stuff # <<>> /\ stuff[1] = "!"
        body == IF neg THEN Tail(stuff) ELSE stuff
        inRange == \E k \in 1..Len(body) :
                       /\ k + 2 <= Len(body)
                       /\ body[k + 1] = "-"
                       /\ Ord(body[k]) <= Ord(c)
                       /\ Ord(c) <= Ord(body[k + 2])
        member == \E k \in 1..Len(body) :
                       /\ body[k] = c
                       /\ ~(body[k] = "-" /\ k > 1 /\ k < Len(body))
        hit == inRange \/ member
    IN IF neg THEN ~hit ELSE hit

\* "*" matches any run of characters, "?" any one character, "[...]" one
\* character of the set, every other character itself; the whole name must
\* match, and letter case is significant.
RECURSIVE fnmatchcase(_, _)
fnmatchcase(name, pat) ==
    IF pat = <<>> THEN name = <<>>
    ELSE IF Head(pat) = "*"
         THEN \/ fnmatchcase(name, Tail(pat))
              \/ (name # <<>> /\ fnmatchcase(Tail(name), pat))
    ELSE IF Head(pat) = "?"
         THEN name # <<>> /\ fnmatchcase(Tail(name), Tail(pat))
    ELSE IF Head(pat) = "[" /\ ClassEnd(pat) # 0
         THEN LET j == ClassEnd(pat) IN
              /\ name # <<>>
              /\ InClass(Head(name), SubSeq(pat, 2, j - 1))
              /\ fnmatchcase(Tail(name), SubSeq(pat, j + 1, Len(pat)))
    ELSE name # <<>> /\ Head(name) = Head(pat) /\ fnmatchcase(Tail(name), Tail(pat))

(***************************************************************************)
(* load_tasks                                                              *)
(*                                                                         *)
(* A raw row has the cells id (a column the program passes through         *)
(* unused), task_name, bucket, assigned, progress, late and the four date  *)
(* texts created, start_date, due, completed.  The four date columns and   *)
(* "Task Name" are always in the export; columns is the set of the other   *)
(* column names the export has.                                            *)
(***************************************************************************)

PROGRESS_TO_PERCENT ==
    << [key |-> <<"N", "o", "t", " ", "s", "t", "a", "r", "t", "e", "d">>, value |-> 0],
       [key |-> <<"I", "n", " ", "p", "r", "o", "g", "r", "e", "s", "s">>, value |-> 50],
       [key |-> <<"C", "o", "m", "p", "l", "e", "t", "e">>, value |-> 100],
       [key |-> <<"C", "o", "m", "p", "l", "e", "t", "e", "d">>, value |-> 100] >>

\* Series.map(dict): the value of a key of the dict, NaN for anything else
MapDict(dict, k) == IF k \in Keys(dict) THEN Some(Lookup(dict, k)) ELSE Na

\* .str.strip().str.title().map(PROGRESS_TO_PERCENT).fillna(0) on one cell;
\* the .str methods and map leave a missing cell missing.
ProgressCell(cell) ==
    LET mapped == IF isna(cell) THEN Na
                  ELSE MapDict(PROGRESS_TO_PERCENT, Title(Strip(Val(cell))))
    IN IF isna(mapped) THEN Some(0) ELSE mapped

\* df["Progress %"] = <series>: the assignment aligns the series on the
\* frame's index.  Without a "Progress" column the series is the empty
\* default of df.get, so every row of the frame gets NaN.
ProgressPercent(row, columns) ==
    IF "Progress" \in columns THEN ProgressCell(row.progress) ELSE Na

\* .astype(str).str.lower() == "true" on one cell ("nan" for a missing one)
LateFlag(row) ==
    IF isna(row.late) THEN FALSE ELSE Lower(Val(row.late)) = <<"t", "r", "u", "e">>

ParseDates(row) ==
    [row EXCEPT !.created = to_datetime(row.created),
                !.start_date = to_datetime(row.start_date),
                !.due = to_datetime(row.due),
                !.completed = to_datetime(row.completed)]

\* pd.concat([df, schedule], axis=1) on one row
WithSchedule(row) ==
    LET schedule == _derive_schedule(row) IN
    [id |-> row.id, task_name |-> row.task_name, bucket |-> row.bucket,
     assigned |-> row.assigned, progress |-> row.progress, late |-> row.late,
     created |-> row.created, start_date |-> row.start_date,
     due |-> row.due, completed |-> row.completed,
     Start |-> schedule.Start, Finish |-> schedule.Finish]

\* The columns load_tasks adds to a row that has a Start and a Finish
WithDerived(row, columns) ==
    [id |-> row.id, task_name |-> row.task_name, bucket |-> row.bucket,
     assigned |-> row.assigned, progress |-> row.progress, late |-> row.late,
     created |-> row.created, start_date |-> row.start_date,
     due |-> row.due, completed |-> row.completed,
     Start |-> row.Start, Finish |-> row.Finish,
     duration_days |-> (Val(row.Finish) - Val(row.Start)) + 1,
     progress_percent |-> ProgressPercent(row, columns),
     late_flag |-> LateFlag(row)]

\* KeyLess without "Task Name" in the sort key
KeyLess_noname(a, b) ==
    \/ Val(a.Start) < Val(b.Start)
    \/ /\ Val(a.Start) = Val(b.Start)
       /\ Val(a.Finish) < Val(b.Finish)

\* Order of sort_values(by=["Start", "Finish", "Task Name"]); a missing
\* name sorts after every name.
NameLess(a, b) ==
    IF isna(a) THEN FALSE
    ELSE IF isna(b) THEN TRUE
    ELSE StrLess(Val(a), Val(b))

KeyLess(a, b) ==
    \/ Val(a.Start) < Val(b.Start)
    \/ /\ Val(a.Start) = Val(b.Start)
       /\ \/ Val(a.Finish) < Val(b.Finish)
          \/ /\ Val(a.Finish) = Val(b.Finish)
             /\ NameLess(a.task_name, b.task_name)

\* Insert r after the rows that do not sort after it (the sort is stable)
RECURSIVE Insert(_, _)
Insert(sorted, r) ==
    IF sorted = <<>> THEN <<r>>
    ELSE IF KeyLess(r, Head(sorted)) THEN <<r>> \o sorted
    ELSE <<Head(sorted)>> \o Insert(Tail(sorted), r)

RECURSIVE sort_values(_)
sort_values(rows) ==
    IF rows = <<>> THEN <<>>
    ELSE Insert(sort_values(SubSeq(rows, 1, Len(rows) - 1)), rows[Len(rows)])

\* dropna on the export's own "Start date" and "Due date" columns
dropna_rawdates(rows) == SelectSeq(rows, LAMBDA r : ~isna(r.start_date) /\ ~isna(r.due))

\* df.dropna(subset=["Start", "Finish"])
dropna(rows) == SelectSeq(rows, LAMBDA r : ~isna(r.Start) /\ ~isna(r.Finish))

\* load_tasks on the rows of an existing export.  On a frame without rows
\* df.apply(_derive_schedule, axis=1) returns a copy of the frame instead
\* of a Start/Finish frame, so dropna(subset=["Start", "Finish"]) raises
\* KeyError.
load_tasks(table, columns) ==
    IF table = <<>> THEN [raised |-> "KeyError", df |-> <<>>]
    ELSE LET parsed == [i \in 1..Len(table) |-> ParseDates(table[i])]
             joined == [i \in 1..Len(parsed) |-> WithSchedule(parsed[i])]
             kept == dropna(joined)
             derived == [i \in 1..Len(kept) |-> WithDerived(kept[i], columns)]
         IN [raised |-> "", df |-> sort_values(derived)]

(***************************************************************************)
(* exclude_buckets                                                         *)
(***************************************************************************)

\* df["Bucket Name"].fillna("")
BucketText(row) == IF isna(row.bucket) THEN <<>> ELSE Val(row.bucket)

\* drop_mask with all() for any()
drop_mask_all(row, patterns) ==
    \A k \in 1..Len(patterns) : fnmatchcase(BucketText(row), patterns[k])

\* any(fnmatchcase(bucket, pattern) for pattern in patterns)
drop_mask(row, patterns) ==
    \E k \in 1..Len(patterns) : fnmatchcase(BucketText(row), patterns[k])

exclude_buckets(df, patterns, columns) ==
    IF patterns = <<>> \/ "Bucket Name" \notin columns THEN df
    ELSE SelectSeq(df, LAMBDA r : ~drop_mask(r, patterns))

(***************************************************************************)
(* build_figure                                                            *)
(***************************************************************************)

\* set(df.loc[df["Progress %"] == 100, "Task Name"])
completed_tasks(df) ==
    {df[i].task_name : i \in {j \in 1..Len(df) : df[j].progress_percent = Some(100)}}

\* _style_completed_bars keyed by row instead of by task name
_style_completed_bars_byrow(df) ==
    [i \in 1..Len(df) |->
        [task |-> df[i].task_name,
         border_color |-> IF df[i].progress_percent = Some(100)
                          THEN "#00FF00" ELSE "rgba(0,0,0,0)",
         border_width |-> IF df[i].progress_percent = Some(100)
                          THEN 2 ELSE 0]]

\* _style_completed_bars.  px.timeline draws one bar per row, grouped into
\* one trace per bucket; every bar of every trace is styled by the same
\* test on its task name, so the bars are listed here in row order.
_style_completed_bars(df) ==
    [i \in 1..Len(df) |->
        [task |-> df[i].task_name,
         border_color |-> IF df[i].task_name \in completed_tasks(df)
                          THEN "#00FF00" ELSE "rgba(0,0,0,0)",
         border_width |-> IF df[i].task_name \in completed_tasks(df)
                          THEN 2 ELSE 0]]

\* The inner loop of _add_assignee_avatars over the assignees of one row,
\* from position i on: the markers added and the color map afterwards.
RECURSIVE RowAvatars(_, _, _, _)
RowAvatars(row, assignees, i, map) ==
    IF i > Len(assignees) THEN [markers |-> <<>>, color_map |-> map]
    ELSE LET got == _get_assignee_color(assignees[i], map)
             rest == RowAvatars(row, assignees, i + 1, got.color_map)
         IN [markers |-> <<[task |-> row.task_name,
                            slot |-> i - 1,
                            text |-> _get_initials(assignees[i]),
                            color |-> got.color,
                            hovertext |-> assignees[i]]>> \o rest.markers,
             color_map |-> rest.color_map]

\* The outer loop of _add_assignee_avatars over the rows, from row n on
RECURSIVE Avatars(_, _, _)
Avatars(df, n, map) ==
    IF n > Len(df) THEN [markers |-> <<>>, color_map |-> map]
    ELSE LET one == RowAvatars(df[n], _parse_assignees(df[n].assigned), 1, map)
             rest == Avatars(df, n + 1, one.color_map)
         IN [markers |-> one.markers \o rest.markers, color_map |-> rest.color_map]

_add_assignee_avatars(df, columns) ==
    IF "Assigned To" \notin columns THEN [markers |-> <<>>, color_map |-> <<>>]
    ELSE Avatars(df, 1, <<>>)

\* px.timeline is given "Bucket Name" as color and "Assigned To" and
\* "Progress" as hover data and raises ValueError for a name that is not a
\* column of the frame.
build_figure(df, columns) ==
    IF ~({"Bucket Name", "Assigned To", "Progress"} \subseteq columns)
    THEN [raised |-> "ValueError", fig |-> Na]
    ELSE [raised |-> "",
          fig |-> Some([bars |-> _style_completed_bars(df),
                        markers |-> _add_assignee_avatars(df, columns).markers])]

(***************************************************************************)
(* State                                                                   *)
(***************************************************************************)

VARIABLES
    table,       \* the rows of the export read by _read_planner_export
    columns,     \* the optional columns the export has
    patterns,    \* args.exclude_buckets
    df_loaded,   \* the frame returned by load_tasks
    df,          \* main's df after exclude_buckets
    fig,         \* the figure returned by build_figure
    output,      \* the document written to args.output
    exit,        \* how the run ended: Na while it is running
    pc,          \* the position in main, or in a single function call
    call,        \* the function called and its argument
    ret,         \* the value the call returned
    color_map,   \* the color_map of _add_assignee_avatars
    first_seen   \* history: the distinct assignees in order of first call

vars == <<table, columns, patterns, df_loaded, df, fig, output, exit, pc,
          call, ret, color_map, first_seen>>

mainVars == <<table, columns, patterns, df_loaded, df, fig, output, exit>>
callVars == <<call, ret, color_map, first_seen>>

AllColumns == {"Bucket Name", "Assigned To", "Progress"}

NO_TASKS == "No tasks with schedule info found in Planner export"

(***************************************************************************)
(* main                                                                    *)
(***************************************************************************)

\* df = load_tasks(args.source)
LoadTasks ==
    /\ pc = "main"
    /\ LET got == load_tasks(table, columns) IN
       IF got.raised # ""
       THEN /\ pc' = "exit"
            /\ exit' = Some([code |-> 1, error |-> got.raised, message |-> "Traceback"])
            /\ UNCHANGED <<df_loaded, df>>
       ELSE /\ pc' = "loaded"
            /\ df_loaded' = got.df
            /\ df' = got.df
            /\ UNCHANGED exit
    /\ UNCHANGED <<table, columns, patterns, fig, output>>
    /\ UNCHANGED callVars

\* df = exclude_buckets(df, args.exclude_buckets)
ExcludeBuckets ==
    /\ pc = "loaded"
    /\ df' = exclude_buckets(df, patterns, columns)
    /\ pc' = "filtered"
    /\ UNCHANGED <<table, columns, patterns, df_loaded, fig, output, exit>>
    /\ UNCHANGED callVars

\* if df.empty: raise SystemExit(...)
ExitEmpty ==
    /\ pc = "filtered"
    /\ df = <<>>
    /\ pc' = "exit"
    /\ exit' = Some([code |-> 1, error |-> "SystemExit", message |-> NO_TASKS])
    /\ UNCHANGED <<table, columns, patterns, df_loaded, df, fig, output>>
    /\ UNCHANGED callVars

\* fig = build_figure(df, chart_title)
BuildFigure ==
    /\ pc = "filtered"
    /\ df # <<>>
    /\ LET got == build_figure(df, columns) IN
       IF got.raised # ""
       THEN /\ pc' = "exit"
            /\ exit' = Some([code |-> 1, error |-> got.raised, message |-> "Traceback"])
            /\ UNCHANGED fig
       ELSE /\ pc' = "built"
            /\ fig' = got.fig
            /\ UNCHANGED exit
    /\ UNCHANGED <<table, columns, patterns, df_loaded, df, output>>
    /\ UNCHANGED callVars

\* fig.write_html(args.output, ...) and the normal end of main
WriteHtml ==
    /\ pc = "built"
    /\ output' = fig
    /\ pc' = "exit"
    /\ exit' = Some([code |-> 0, error |-> "", message |-> "Wrote Gantt chart"])
    /\ UNCHANGED <<table, columns, patterns, df_loaded, df, fig>>
    /\ UNCHANGED callVars

NextMain == LoadTasks \/ ExcludeBuckets \/ ExitEmpty \/ BuildFigure \/ WriteHtml

(***************************************************************************)
(* Single calls of _derive_schedule, _get_initials, _get_assignee_color    *)
(***************************************************************************)

DeriveSchedule ==
    /\ pc = "call"
    /\ call.fn = "_derive_schedule"
    /\ ret' = _derive_schedule(call.arg)
    /\ pc' = "return"
    /\ UNCHANGED <<call, color_map, first_seen>>
    /\ UNCHANGED mainVars

GetInitials ==
    /\ pc = "call"
    /\ call.fn = "_get_initials"
    /\ ret' = _get_initials(call.arg)
    /\ pc' = "return"
    /\ UNCHANGED <<call, color_map, first_seen>>
    /\ UNCHANGED mainVars

\* The assignees the avatar loop may meet next.  Names are opaque keys, so
\* new names are taken in increasing order, except that each of the first
\* FreeOrder new names is either of the two smallest unused ones.
NumNames == 17
FreeOrder == 3
Names == 1..NumNames

CallNames(map) ==
    LET unused == Names \ Keys(map)
        width == IF Len(map) < FreeOrder THEN 2 ELSE 1
    IN Keys(map) \cup {n \in unused : Cardinality({m \in unused : m < n}) < width}

\* One call _get_assignee_color(assignee, color_map) of the avatar loop
GetAssigneeColor ==
    /\ pc = "avatars"
    /\ \E name \in CallNames(color_map) :
          LET got == _get_assignee_color(name, color_map) IN
          /\ call' = [fn |-> "_get_assignee_color", arg |-> name]
          /\ color_map' = got.color_map
          /\ ret' = got.color
          /\ first_seen' = IF \E k \in 1..Len(first_seen) : first_seen[k] = name
                           THEN first_seen
                           ELSE Append(first_seen, name)
    /\ UNCHANGED pc
    /\ UNCHANGED mainVars

(***************************************************************************)
(* Inputs                                                                  *)
(***************************************************************************)

\* Tables of at most n rows drawn from rows; id is the position in the file
Tables(rows, n) ==
    UNION {{[i \in 1..k |-> [t[i] EXCEPT !.id = i]] : t \in [1..k -> rows]} : k \in 0..n}

\* A row with a usable schedule and nothing else of interest
PlainRow ==
    [id |-> 0, task_name |-> Some(<<"t">>), bucket |-> Some(<<"x">>),
     assigned |-> Na, progress |-> Na, late |-> Na,
     created |-> Na, start_date |-> Some(<<"0", "3", "/", "1", "0", "/", "2", "0", "2", "4">>), due |-> Na, completed |-> Na]

IdleMain ==
    /\ table = <<>>
    /\ columns = AllColumns
    /\ patterns = <<>>
    /\ df_loaded = <<>>
    /\ df = <<>>
    /\ fig = Na
    /\ output = Na
    /\ exit = Na

IdleCall ==
    /\ call = [fn |-> "", arg |-> 0]
    /\ ret = Na
    /\ color_map = <<>>
    /\ first_seen = <<>>

StartMain ==
    /\ pc = "main"
    /\ df_loaded = <<>>
    /\ df = <<>>
    /\ fig = Na
    /\ output = Na
    /\ exit = Na
    /\ IdleCall

(***************************************************************************)
(* _derive_schedule on every combination of the four date fields           *)
(***************************************************************************)

MaxDays == 8

Day0 == Ordinal(2024, 2, 25)

Timestamps == {Na} \cup {Some(Day0 + k) : k \in 0..MaxDays}

InitSchedule ==
    /\ pc = "call"
    /\ \E row \in [start_date : Timestamps, created : Timestamps,
                   due : Timestamps, completed : Timestamps] :
          call = [fn |-> "_derive_schedule", arg |-> row]
    /\ ret = Na
    /\ color_map = <<>>
    /\ first_seen = <<>>
    /\ IdleMain

SpecSchedule == InitSchedule /\ [][DeriveSchedule]_vars

\* The start and the finish the date fields of a row name, before any
\* default: the first field present of (Start date, Created Date) and of
\* (Due date, Completed Date).
NamedStart(row) == IF ~isna(row.start_date) THEN row.start_date ELSE row.created
NamedFinish(row) == IF ~isna(row.due) THEN row.due ELSE row.completed

Returned(fn) == pc = "return" /\ call.fn = fn

\* C1: for every combination of present and absent date fields,
\* _derive_schedule returns start = Start date else Created Date and
\* finish = Due date else Completed Date; a missing start is finish - 7
\* days, a missing finish is start + 7 days, a finish before the start is
\* replaced by the start, and a row without any date has neither.
C1_DeriveSchedule ==
    Returned("_derive_schedule") =>
        LET s == NamedStart(call.arg)
            f == NamedFinish(call.arg)
        IN CASE isna(s) /\ isna(f) -> ret = [Start |-> Na, Finish |-> Na]
             [] isna(s) /\ ~isna(f) ->
                    ret = [Start |-> Some(Val(f) - 7), Finish |-> f]
             [] ~isna(s) /\ isna(f) ->
                    ret = [Start |-> s, Finish |-> Some(Val(s) + 7)]
             [] ~isna(s) /\ ~isna(f) ->
                    ret = [Start |-> s,
                           Finish |-> IF Val(f) < Val(s) THEN s ELSE f]

\* A row with a Created Date and an earlier Completed Date only has been
\* scheduled: its finish is clamped to its start.
C1_Witness ==
    /\ Returned("_derive_schedule")
    /\ isna(call.arg.start_date) /\ isna(call.arg.due)
    /\ ~isna(call.arg.created) /\ ~isna(call.arg.completed)
    /\ Val(call.arg.completed) < Val(call.arg.created)
    /\ ret.Start = call.arg.created /\ ret.Finish = call.arg.created

(***************************************************************************)
(* _get_initials on short names and on the names of the examples           *)
(***************************************************************************)

MaxNameLen == 5

NameAlphabet == {"j", "r", "S", "a", " ", "."}

JANE_Q_PUBLIC == <<"J", "a", "n", "e", " ", "Q", ".", " ", "P", "u", "b", "l", "i", "c">>
JOHN_SMITH_JR == <<"J", "o", "h", "n", " ", "S", "m", "i", "t", "h", " ", "J", "r">>
MADONNA == <<"M", "a", "d", "o", "n", "n", "a">>
ANN_LEE_PHD_MD == <<"A", "n", "n", " ", "L", "e", "e", " ", "P", "h", "D", " ", "M", "D">>

ExampleNames == {JANE_Q_PUBLIC, JOHN_SMITH_JR, MADONNA, ANN_LEE_PHD_MD}

ShortNames == UNION {[1..n -> NameAlphabet] : n \in 0..MaxNameLen}

InitInitials ==
    /\ pc = "call"
    /\ \E name \in ShortNames \cup ExampleNames :
          call = [fn |-> "_get_initials", arg |-> name]
    /\ ret = Na
    /\ color_map = <<>>
    /\ first_seen = <<>>
    /\ IdleMain

SpecInitials == InitInitials /\ [][GetInitials]_vars

IsSuffixToken(t) == Normalize(t) \in suffixes

\* The number of tokens left once the trailing suffix tokens are removed:
\* the position of the last token that is not a suffix, 0 without one.
Remaining(tokens) ==
    LET keep == {i \in 1..Len(tokens) : ~IsSuffixToken(tokens[i])}
    IN IF keep = {} THEN 0 ELSE CHOOSE i \in keep : \A j \in keep : j <= i

\* C8: _get_initials removes the trailing suffix tokens of a name and
\* returns "??" when no token remains, the upper-cased first two characters
\* of the token when one remains, and otherwise the upper-cased first
\* characters of the first and of the last remaining token; "Jane Q.
\* Public" gives "JP", "John Smith Jr" gives "JS" and "Madonna" gives "MA".
C8_Initials ==
    Returned("_get_initials") =>
        LET tokens == SplitWs(call.arg, <<>>)
            k == Remaining(tokens)
        IN /\ k = 0 => ret = <<"?", "?">>
           /\ k = 1 => ret = Upper(Prefix(tokens[1], 2))
           /\ k > 1 => ret = Upper(<<tokens[1][1], tokens[k][1]>>)
           /\ call.arg = JANE_Q_PUBLIC => ret = <<"J", "P">>
           /\ call.arg = JOHN_SMITH_JR => ret = <<"J", "S">>
           /\ call.arg = MADONNA => ret = <<"M", "A">>

\* "Ann Lee PhD MD" has lost both of its suffixes and gives "AL".
C8_Witness ==
    /\ Returned("_get_initials")
    /\ call.arg = ANN_LEE_PHD_MD
    /\ ret = <<"A", "L">>

(***************************************************************************)
(* _get_assignee_color over the calls of one avatar loop                   *)
(***************************************************************************)

InitColor ==
    /\ pc = "avatars"
    /\ IdleCall
    /\ IdleMain

SpecColor == InitColor /\ [][GetAssigneeColor]_vars

\* The palette color with the (0-based) index i
Palette(i) == AVATAR_COLORS[i + 1]

\* C7: the k-th distinct assignee in first-seen order holds the palette
\* color with index (k-1) mod 15 (the first and the 16th hold index 0),
\* the call returns the color its assignee holds, and a call for an
\* assignee that already has a color leaves the map as it is.
C7_ColorCycle ==
    /\ [](/\ Keys(color_map) = {first_seen[k] : k \in 1..Len(first_seen)}
          /\ Len(color_map) = Len(first_seen)
          /\ \A k \in 1..Len(first_seen) :
                Lookup(color_map, first_seen[k]) = Palette((k - 1) % 15)
          /\ call.fn = "_get_assignee_color" => ret = Lookup(color_map, call.arg))
    /\ [][call'.arg \in Keys(color_map) =>
             /\ color_map' = color_map
             /\ ret' = Lookup(color_map, call'.arg)]_vars

\* Sixteen distinct assignees have been seen, the 16th holds the first
\* palette color, and the last call was a repeat for the first assignee.
C7_Witness ==
    /\ Len(first_seen) = 16
    /\ Lookup(color_map, first_seen[16]) = Palette(0)
    /\ call.arg = first_seen[1]
    /\ ret = Palette(0)

(***************************************************************************)
(* main on exports whose rows differ in their date fields                  *)
(***************************************************************************)

MaxRows == 2

\* 02/30/2024 is no day of the calendar
DateRows ==
    {[PlainRow EXCEPT !.start_date = sd, !.created = cr, !.due = du, !.completed = co] :
        sd \in {Na, Some(<<"0", "3", "/", "1", "0", "/", "2", "0", "2", "4">>)},
        cr \in {Na, Some(<<"0", "2", "/", "2", "8", "/", "2", "0", "2", "4">>)},
        du \in {Na, Some(<<"3", "/", "1", "/", "2", "0", "2", "4">>), Some(<<"0", "2", "/", "3", "0", "/", "2", "0", "2", "4">>)},
        co \in {Na, Some(<<"0", "3", "/", "1", "2", "/", "2", "0", "2", "4">>)}}

\* Row A has Start and Due, row B has Created and Completed, row C no date
RowA == [PlainRow EXCEPT !.task_name = Some(<<"A">>), !.due = Some(<<"0", "3", "/", "1", "2", "/", "2", "0", "2", "4">>)]
RowB == [PlainRow EXCEPT !.task_name = Some(<<"B">>), !.start_date = Na,
                         !.created = Some(<<"0", "2", "/", "2", "8", "/", "2", "0", "2", "4">>), !.completed = Some(<<"3", "/", "1", "/", "2", "0", "2", "4">>)]
RowC == [PlainRow EXCEPT !.task_name = Some(<<"C">>), !.start_date = Na]

ExampleTable ==
    << [RowA EXCEPT !.id = 1], [RowB EXCEPT !.id = 2], [RowC EXCEPT !.id = 3] >>

\* A row whose four date texts are all malformed: year first, month 13,
\* a two-digit year, and no date at all
MalformedRow ==
    [PlainRow EXCEPT !.start_date = Some(<<"2", "0", "2", "4", "-", "0", "2", "-", "2", "8">>), !.created = Some(<<"1", "3", "/", "0", "1", "/", "2", "0", "2", "4">>),
                     !.due = Some(<<"3", "/", "1", "/", "2", "4">>), !.completed = Some(<<"T", "B", "D">>)]

MalformedTable == << [MalformedRow EXCEPT !.id = 1], [RowA EXCEPT !.id = 2] >>

InitDates ==
    /\ table \in Tables(DateRows, MaxRows) \cup {ExampleTable, MalformedTable}
    /\ columns = AllColumns
    /\ patterns \in {<<>>, <<<<"x">>>>}
    /\ StartMain

SpecDates == InitDates /\ [][NextMain]_vars

(***************************************************************************)
(* main on exports whose rows differ in their Progress text                *)
(***************************************************************************)

ProgressTexts ==
    { <<"N", "o", "t", " ", "s", "t", "a", "r", "t", "e", "d">>, <<"I", "n", " ", "p", "r", "o", "g", "r", "e", "s", "s">>, <<"i", "n", " ", "p", "r", "o", "g", "r", "e", "s", "s">>, <<"I", "n", " ", "P", "r", "o", "g", "r", "e", "s", "s">>, <<" ", "I", "n", " ", "P", "r", "o", "g", "r", "e", "s", "s", " ">>, <<"C", "o", "m", "p", "l", "e", "t", "e">>, <<"C", "o", "m", "p", "l", "e", "t", "e", "d">>, <<"c", "o", "m", "p", "l", "e", "t", "e", "d">>, <<"B", "l", "o", "c", "k", "e", "d">> }

ProgressRows ==
    {[PlainRow EXCEPT !.progress = p, !.late = l] :
        p \in {Na} \cup {Some(t) : t \in ProgressTexts},
        l \in {Na, Some(<<"T", "r", "u", "e">>)}}

InitProgress ==
    /\ columns = AllColumns
    /\ table \in Tables(ProgressRows, MaxRows)
    /\ patterns \in {<<>>, <<<<"x">>>>}
    /\ StartMain

SpecProgress == InitProgress /\ [][NextMain]_vars

(***************************************************************************)
(* main on exports whose rows differ in their bucket                       *)
(***************************************************************************)

BucketTexts == { <<"4", ".", "1">>, <<"a", "4", ".", "1", "b">>, <<"4", "x", "1">>, <<"4", "1">>, <<"A">>, <<"a">> }

BucketRows ==
    {[PlainRow EXCEPT !.bucket = b] : b \in {Na} \cup {Some(t) : t \in BucketTexts}}

STAR_41_STAR == <<"*", "4", ".", "1", "*">>

PatternLists ==
    { <<>>, <<STAR_41_STAR>>, <<<<"a">>>>, <<<<"?">>>>, <<<<"*">>>>, <<<<"A">>, <<"4", "*">>>>, <<<<"[", "!", "4", "]", "*">>>> }

\* An export may lack the "Bucket Name" or the "Progress" column; its rows
\* then have no such cell.
InitExclude ==
    /\ columns \in {AllColumns, AllColumns \ {"Bucket Name"}, AllColumns \ {"Progress"}}
    /\ table \in Tables(IF "Bucket Name" \in columns
                        THEN BucketRows
                        ELSE {[PlainRow EXCEPT !.bucket = Na]},
                        MaxRows)
    /\ patterns \in PatternLists
    /\ StartMain

SpecExclude == InitExclude /\ [][NextMain]_vars

(***************************************************************************)
(* main on exports whose rows differ in their sort key                     *)
(***************************************************************************)

MaxSortRows == 3

SortRows ==
    {[PlainRow EXCEPT !.start_date = Some(d[1]), !.due = Some(d[2]),
                      !.task_name = Some(nb[1]), !.bucket = Some(nb[2])] :
        d \in {<<<<"0", "2", "/", "2", "8", "/", "2", "0", "2", "4">>, <<"3", "/", "1", "/", "2", "0", "2", "4">>>>, <<<<"0", "2", "/", "2", "8", "/", "2", "0", "2", "4">>, <<"0", "3", "/", "1", "2", "/", "2", "0", "2", "4">>>>, <<<<"3", "/", "1", "/", "2", "0", "2", "4">>, <<"0", "3", "/", "1", "2", "/", "2", "0", "2", "4">>>>},
        nb \in {<<<<"a">>, <<"y">>>>, <<<<"a", "b">>, <<"y">>>>, <<<<"B">>, <<"x">>>>}}

InitSort ==
    /\ table \in Tables(SortRows, MaxSortRows)
    /\ columns = AllColumns
    /\ patterns \in {<<>>, <<<<"x">>>>}
    /\ StartMain

SpecSort == InitSort /\ [][NextMain]_vars

(***************************************************************************)
(* main on exports whose rows differ in name, progress and assignees       *)
(***************************************************************************)

StyleRows ==
    {[PlainRow EXCEPT !.task_name = n, !.progress = p, !.bucket = b, !.assigned = a] :
        n \in {Some(<<"a">>), Some(<<"a", "b">>)},
        p \in {Na, Some(<<"I", "n", " ", "p", "r", "o", "g", "r", "e", "s", "s">>), Some(<<"C", "o", "m", "p", "l", "e", "t", "e", "d">>)},
        b \in {Some(<<"x">>), Some(<<"y">>)},
        a \in {Na, Some(<<"A", "l", " ", "B", ";", " ", "C", "y", " ", "J", "r", " ", ";">>)}}

InitStyle ==
    /\ table \in Tables(StyleRows, MaxRows)
    /\ columns = AllColumns
    /\ patterns \in {<<>>, <<<<"x">>>>}
    /\ StartMain

SpecStyle == InitStyle /\ [][NextMain]_vars

(***************************************************************************)
(* Properties of load_tasks, exclude_buckets and main                      *)
(***************************************************************************)

Raised(err) == pc = "exit" /\ Val(exit).error = err

\* load_tasks has returned
Loaded == pc \in {"loaded", "filtered", "built"} \/ (pc = "exit" /\ ~Raised("KeyError"))

\* exclude_buckets has returned
Filtered == pc \in {"filtered", "built"} \/ (pc = "exit" /\ ~Raised("KeyError"))

Parses(cell) == ~isna(to_datetime(cell))

\* The rows of the export with at least one date field that parses
Schedulable ==
    {i \in 1..Len(table) :
        \/ Parses(table[i].start_date) \/ Parses(table[i].created)
        \/ Parses(table[i].due) \/ Parses(table[i].completed)}

Ids(rows) == {rows[k].id : k \in 1..Len(rows)}

\* C2: every row of the table load_tasks returns has a start and a finish,
\* finish >= start, and duration_days = (finish - start) + 1 >= 1.
C2_RowInvariant ==
    Loaded =>
        \A k \in 1..Len(df_loaded) :
            LET r == df_loaded[k] IN
            /\ ~isna(r.Start) /\ ~isna(r.Finish)
            /\ Val(r.Finish) >= Val(r.Start)
            /\ r.duration_days = (Val(r.Finish) - Val(r.Start)) + 1
            /\ r.duration_days >= 1

\* load_tasks returned a row whose due date lies before its start date:
\* its finish is its start and its duration one day.
C2_Witness ==
    /\ Loaded
    /\ \E k \in 1..Len(df_loaded) :
          LET r == df_loaded[k] IN
          /\ ~isna(r.start_date) /\ ~isna(r.due)
          /\ Val(r.due) < Val(r.start_date)
          /\ r.Finish = r.Start
          /\ r.duration_days = 1

\* C3: a row of the export is missing from the table load_tasks returns
\* exactly when none of its four date fields parses; every other row is
\* there once, so the row count drops by the number of such rows, and of
\* the rows A, B, C of the example exactly A and B are returned.
C3_DroppedRows ==
    Loaded =>
        /\ Ids(df_loaded) = Schedulable
        /\ Len(df_loaded) = Cardinality(Schedulable)
        /\ Len(df_loaded) = Len(table) - Cardinality((1..Len(table)) \ Schedulable)
        /\ table = ExampleTable => Ids(df_loaded) = {1, 2}

\* The example export has been loaded and rows A and B are returned.
C3_Witness ==
    /\ Loaded
    /\ table = ExampleTable
    /\ Len(df_loaded) = 2
    /\ {df_loaded[k].task_name : k \in 1..Len(df_loaded)} = {RowA.task_name, RowB.task_name}

\* The percentage the status table gives a Progress text, read without
\* regard to letter case and surrounding whitespace; 0 for any other text,
\* for a missing cell and for a missing column.
StatusPercent(row) ==
    IF "Progress" \notin columns \/ isna(row.progress) THEN 0
    ELSE LET t == Lower(Strip(Val(row.progress))) IN
         IF t = <<"n", "o", "t", " ", "s", "t", "a", "r", "t", "e", "d">> THEN 0
         ELSE IF t = <<"i", "n", " ", "p", "r", "o", "g", "r", "e", "s", "s">> THEN 50
         ELSE IF t \in {<<"c", "o", "m", "p", "l", "e", "t", "e">>, <<"c", "o", "m", "p", "l", "e", "t", "e", "d">>} THEN 100
         ELSE 0

\* C4: progress_percent of every retained row is the percentage of its
\* Progress text, matched case-insensitively and ignoring surrounding
\* whitespace (not-started 0, in-progress 50, complete/completed 100,
\* anything else or nothing 0), hence one of 0, 50, 100.
C4_ProgressPercent ==
    Loaded =>
        \A k \in 1..Len(df_loaded) :
            /\ df_loaded[k].progress_percent = Some(StatusPercent(df_loaded[k]))
            /\ df_loaded[k].progress_percent \in {Some(0), Some(50), Some(100)}

\* Does the bucket of the row, "" for a missing one, match a pattern?
Excluded(row) ==
    \E k \in 1..Len(patterns) :
        fnmatchcase(IF isna(row.bucket) THEN <<>> ELSE Val(row.bucket), patterns[k])

\* Does s contain sub as a contiguous substring?
Contains(s, sub) ==
    \E i \in 0..(Len(s) - Len(sub)) : SubSeq(s, i + 1, i + Len(sub)) = sub

\* C5 as stated: exclude_buckets removes exactly the rows whose bucket
\* (a missing one read as "") matches at least one pattern and keeps the
\* others unchanged and in order.
C5_AsStated ==
    Filtered => df = SelectSeq(df_loaded, LAMBDA r : ~Excluded(r))

\* C5 as amended: on a table with a "Bucket Name" column exclude_buckets
\* removes exactly the rows whose bucket (a missing one read as "")
\* case-sensitively glob-matches at least one pattern and keeps the others
\* unchanged and in order; without that column, or without patterns, it
\* removes nothing; "*4.1*" removes exactly the rows whose bucket contains
\* "4.1"; the pattern "a" does not remove bucket "A".
C5_Exclude ==
    Filtered =>
        /\ "Bucket Name" \in columns =>
                df = SelectSeq(df_loaded, LAMBDA r : ~Excluded(r))
        /\ "Bucket Name" \notin columns => df = df_loaded
        /\ patterns = <<>> => df = df_loaded
        /\ ("Bucket Name" \in columns /\ patterns = <<STAR_41_STAR>>) =>
                Ids(df) = {df_loaded[k].id : k \in
                              {j \in 1..Len(df_loaded) :
                                  \/ isna(df_loaded[j].bucket)
                                  \/ ~Contains(Val(df_loaded[j].bucket), <<"4", ".", "1">>)}}
        /\ ("Bucket Name" \in columns /\ patterns = <<<<"a">>>>) =>
                \A k \in 1..Len(df_loaded) :
                    df_loaded[k].bucket = Some(<<"A">>) => df_loaded[k].id \in Ids(df)

\* With two patterns, a row matching only the second one was removed while
\* a row matching neither was kept.
C5_Witness ==
    /\ Filtered
    /\ "Bucket Name" \in columns
    /\ Len(patterns) = 2
    /\ Len(df) = 1
    /\ Len(df_loaded) = 2
    /\ \E k \in 1..Len(df_loaded) :
          /\ df_loaded[k].id \notin Ids(df)
          /\ ~fnmatchcase(Val(df_loaded[k].bucket), patterns[1])

\* a <= b in the lexicographic order of strings by code point
LexLeq(a, b) ==
    \/ /\ Len(a) <= Len(b)
       /\ SubSeq(b, 1, Len(a)) = a
    \/ \E i \in 1..Len(a) :
          /\ i <= Len(b)
          /\ SubSeq(a, 1, i - 1) = SubSeq(b, 1, i - 1)
          /\ Ord(a[i]) < Ord(b[i])

\* (start, finish, name) of a <= (start, finish, name) of b
KeyLeq(a, b) ==
    \/ Val(a.Start) < Val(b.Start)
    \/ /\ a.Start = b.Start
       /\ Val(a.Finish) < Val(b.Finish)
    \/ /\ a.Start = b.Start
       /\ a.Finish = b.Finish
       /\ LexLeq(Val(a.task_name), Val(b.task_name))

\* C6: the table main hands to the renderer is sorted ascending by
\* (start, finish, name), whether or not exclude_buckets removed rows.
C6_Sorted ==
    Filtered => \A i \in 1..Len(df) : \A j \in 1..Len(df) : i < j => KeyLeq(df[i], df[j])

\* exclude_buckets removed a row and left two rows with the same start and
\* finish and different names in the export's opposite order.
C6_Witness ==
    /\ Filtered
    /\ Len(df) < Len(df_loaded)
    /\ \E i \in 1..Len(df) : \E j \in 1..Len(df) :
          /\ i < j
          /\ df[i].Start = df[j].Start
          /\ df[i].Finish = df[j].Finish
          /\ df[i].task_name # df[j].task_name
          /\ df[i].id > df[j].id

\* The tasks that survive normalisation and bucket filtering
Survivors ==
    {i \in Schedulable :
        ~("Bucket Name" \in columns /\ patterns # <<>> /\ Excluded(table[i]))}

\* C9: when no task survives (every row unschedulable or excluded, or no
\* rows at all) the run ends with a non-zero exit carrying the user-facing
\* message, without a figure and without an output document; when a task
\* survives, the run renders and writes the output.
C9_EmptyExit ==
    pc = "exit" =>
        IF Survivors = {}
        THEN /\ exit = Some([code |-> 1, error |-> "SystemExit", message |-> NO_TASKS])
             /\ fig = Na
             /\ output = Na
        ELSE /\ Val(exit).code = 0
             /\ fig # Na
             /\ output = fig

Flagged(bar) == bar.border_color = "#00FF00" /\ bar.border_width = 2
Plain(bar) == bar.border_color = "rgba(0,0,0,0)" /\ bar.border_width = 0

\* C10: _style_completed_bars gives a bar the green border of width 2
\* exactly when some row of the table with the bar's task name has
\* progress_percent 100, so rows that share a name get the same border.
C10_CompletedBars ==
    fig # Na =>
        LET bars == Val(fig).bars IN
        /\ Len(bars) = Len(df)
        /\ \A i \in 1..Len(df) :
              /\ bars[i].task = df[i].task_name
              /\ Flagged(bars[i]) <=>
                    \E j \in 1..Len(df) :
                        /\ df[j].task_name = df[i].task_name
                        /\ df[j].progress_percent = Some(100)
              /\ Flagged(bars[i]) \/ Plain(bars[i])
              /\ \A j \in 1..Len(df) :
                    df[j].task_name = df[i].task_name => bars[j] = bars[i]

\* Two rows share a name, one is completed and the other is not, and both
\* bars carry the completed border.
C10_Witness ==
    /\ fig # Na
    /\ \E i \in 1..Len(df) : \E j \in 1..Len(df) :
          /\ df[i].task_name = df[j].task_name
          /\ df[i].progress_percent = Some(100)
          /\ df[j].progress_percent # Some(100)
          /\ Flagged(Val(fig).bars[i])
          /\ Flagged(Val(fig).bars[j])

====
